---- MODULE Spec2Model ----
(***************************************************************************)
(* Session / token lifecycle of auth.js (src/unnamed/part_000): login,     *)
(* renewal, the renewal timer, the 401 handling of apiCall and logout.     *)
(*                                                                         *)
(* One step of the model is one browser task: the synchronous run of the   *)
(* code from an invocation, a timer tick or an answered request up to the  *)
(* next await of a fetch.  A logout() that the code calls without awaiting *)
(* it runs, inside that same step, up to its own fetch.  Between a fetch   *)
(* settling and its body being read (lines 59, 67-70, 73) a chain reads    *)
(* and writes nothing shared, so the answer is delivered to the chain in   *)
(* the step in which its body has been read.                               *)
(***************************************************************************)
EXTENDS Integers, FiniteSets, Bags, TLC

\* ------------------------------------------------------------- bounds
MaxChains == 2      \* async call chains in flight together
NavCap    == 2      \* navigations per origin that are counted exactly

Null    == "null"
Roles   == {"admin", "viewer"}
NoUser  == "none"
NoTimer == 0        \* refreshInterval when no interval is kept

\* the bodies the server answers with (those of /login and /refresh carry
\* the session fields the code reads)
Bodies == {[accessToken |-> "A1", refreshToken |-> "R1", user |-> "admin"],
           [accessToken |-> "A2", refreshToken |-> "R2", user |-> "viewer"]}
NoBody == [accessToken |-> Null, refreshToken |-> Null, user |-> NoUser]

\* what a fetch can settle with: 2xx, 401, another non-2xx, or a rejection
Statuses == {"ok", "401", "500", "neterr"}

\* the operations that go through apiCall with an endpoint other than /refresh
ApiKinds     == {"login", "register", "logout"}
\* the operations whose refreshToken() is not nested in apiCall's 401 handling
RefreshKinds == {"refresh", "initAuth", "tick"}

VARIABLES
    authState,        \* [access, refresh, user]: the in-memory Session
    stored,           \* localStorage[REFRESH_TOKEN_KEY], Null when absent
    refreshInterval,  \* the handle kept by the module, NoTimer when none
    timers,           \* the intervals the browser has scheduled (handles)
    chains,           \* bag of the async call chains in flight
    finished,         \* the chain that ended in the last step (Idle: none did)
    ev,               \* what the last step did to the Session
    nav,              \* window.location.replace calls made by the last step
    sent,             \* the request the last step sent (NoRequest: none)
    quiet             \* a logout() has ended and no login() or refreshToken()
                      \* has been called since

vars == <<authState, stored, refreshInterval, timers, chains, finished, ev, nav, sent, quiet>>

NoSession == [access |-> Null, refresh |-> Null, user |-> NoUser]

\* no chain.  The fields after `pc` record what a chain did:
\*   out      what the caller of the operation got ("pending" while in flight)
\*   caught   the error the operation caught and logged itself (logout, tick)
\*   root     who is at the origin of a logout(): the application or a tick
\*   navs     navigations made so far by the logout() calls from that origin
\*   nmain    requests sent to the chain's own endpoint
\*   nrefreq  requests sent to /refresh;  nref: refreshToken() calls
\*   nlo      logout() calls made by the chain
\*   sentRef  refresh credential in the /refresh request
\*   renewed  its refreshToken() returned
\*   body     the 2xx answer just read and returned by apiCall
Idle == [kind |-> "free", pc |-> "done", out |-> "none", caught |-> "none",
         root |-> "none",
         navs |-> 0, nmain |-> 0, nrefreq |-> 0, nref |-> 0, nlo |-> 0,
         sentRef |-> Null, renewed |-> FALSE, body |-> NoBody]

One(r) == SetToBag({r})

\* a request: its endpoint, the access credential of its Authorization
\* header (Null: no header) and whether it is the retry of apiCall
NoRequest == [to |-> "none", auth |-> Null, retry |-> FALSE]
Endpoint(kind) == CASE kind = "login"    -> "/login"
                    [] kind = "register" -> "/register"
                    [] kind = "logout"   -> "/logout"
                    [] OTHER             -> "/refresh"

\* the program state a step transforms; `cur` is the chain that runs
World(r) == [auth |-> authState, stored |-> stored, ri |-> refreshInterval,
             timers |-> timers,
             ch |-> IF r \in BagToSet(chains) THEN chains (-) One(r) ELSE chains,
             cur |-> r, done |-> Idle, ev |-> "none", nav |-> 0, sent |-> NoRequest,
             quiet |-> quiet]

Install(w) ==
    /\ BagCardinality(w.ch) <= MaxChains
    /\ authState' = w.auth
    /\ stored' = w.stored
    /\ refreshInterval' = w.ri
    /\ timers' = w.timers
    /\ chains' = w.ch
    /\ finished' = w.done
    /\ ev' = w.ev
    /\ nav' = w.nav
    /\ sent' = w.sent
    /\ quiet' = w.quiet

\* ------------------------------------------------------------- helpers
getStoredRefresh(w) == w.stored

setStoredRefresh(w, token) == [w EXCEPT !.stored = token]

\* setInterval hands out a handle no scheduled interval has
NewHandle(ts) == CHOOSE h \in 1..(Cardinality(ts) + 1) :
                     h \notin ts /\ \A k \in 1..(h - 1) : k \in ts

stopAutoRefresh(w) ==
    IF w.ri # NoTimer
    THEN [w EXCEPT !.timers = @ \ {w.ri}, !.ri = NoTimer]
    ELSE w

\* startAutoRefresh that schedules its interval without cancelling
startAutoRefreshNoStop(w) ==
    LET h == NewHandle(w.timers)
    IN [w EXCEPT !.timers = @ \cup {h}, !.ri = h]

startAutoRefresh(w) ==
    LET s == stopAutoRefresh(w)
        h == NewHandle(s.timers)
    IN [s EXCEPT !.timers = @ \cup {h}, !.ri = h]

isAuthenticated == stored # Null

\* hasRole(...roles), line 178: `authState.user && roles.includes(role)`
\* evaluates to authState.user itself when that is null, to the boolean
\* of includes otherwise; the model's user is the profile's role
JsBool(b) == IF b THEN "true" ELSE "false"

hasRole(roles) ==
    IF authState.user = NoUser THEN authState.user
    ELSE JsBool(authState.user \in roles)

\* one more navigation: the count is exact below NavCap; from NavCap on,
\* NavCap and NavCap + 1 both stand for "NavCap or more" and take turns
Counted(n) == IF n <= NavCap THEN n + 1 ELSE NavCap

\* the running chain awaits a fetch
Suspend(w, pc) == [w EXCEPT !.ch = @ (+) One([w.cur EXCEPT !.pc = pc]), !.cur = Idle]

\* the running chain ends: the caller of its operation gets `out`
Finish(w, out) == [w EXCEPT !.done = [w.cur EXCEPT !.pc = "done", !.out = out],
                            !.cur = Idle]

\* logout(), lines 116-120, up to the await of its fetch.  byApp: called by
\* the application; otherwise by the running chain, without await
logoutBegin(w, byApp) ==
    LET p   == w.cur
        w1  == stopAutoRefresh(w)
        w2  == IF byApp THEN w1 ELSE [w1 EXCEPT !.cur.nlo = @ + 1]
        new == [Idle EXCEPT !.kind = "logout", !.pc = "fetch1", !.out = "pending",
                            !.root = IF byApp THEN "app" ELSE p.root,
                            !.navs = IF byApp THEN 0
                                     ELSE IF p.kind = "logout"
                                          THEN Counted(p.navs)
                                          ELSE p.navs,
                            !.nmain = 1]
    IN [w2 EXCEPT !.ch = @ (+) One(new),
                  !.sent = [to |-> "/logout", auth |-> w.auth.access, retry |-> FALSE]]

\* logout() without its try/finally: the cleanup runs only when apiCall returned
logoutNoFinally(w) ==
    IF w.cur.caught = "none"
    THEN Finish([w EXCEPT !.auth = NoSession, !.stored = Null, !.nav = @ + 1,
                          !.cur.navs = Counted(@), !.ev = "logout",
                          !.quiet = TRUE], "ok")
    ELSE Finish(w, w.cur.caught)

\* logout(), lines 123-127: the finally block
logoutFinally(w) ==
    LET w1 == [w EXCEPT !.auth = NoSession]
        w2 == setStoredRefresh(w1, Null)
        w3 == [w2 EXCEPT !.nav = @ + 1, !.cur.navs = Counted(@),
                         !.ev = "logout", !.quiet = TRUE]
    IN Finish(w3, "ok")

\* apiCall threw `e` to the operation that called it
\* (login, lines 84-85; register, line 77; logout, lines 119-127)
callFailed(w, e) ==
    IF w.cur.kind = "logout"
    THEN logoutFinally([w EXCEPT !.cur.caught = e])
    ELSE Finish(w, e)

\* apiCall whose catch rethrows without calling logout()
apiCallCatchNoLogout(w, e) == callFailed(w, e)

\* apiCall, lines 60-63: the catch of the 401 handling
apiCallCatch(w, e) == callFailed(logoutBegin(w, FALSE), e)

\* every failure of refreshToken() ends in logout()
refreshFailedAlwaysLogout(w, e) ==
    IF w.cur.kind \in RefreshKinds
    THEN Finish(logoutBegin([w EXCEPT !.cur.caught = e], FALSE),
                IF w.cur.kind = "tick" THEN "ok" ELSE e)
    ELSE apiCallCatch(w, e)

\* refreshToken() whose failure removes the stored credential
refreshFailedClearsStore(w, e) ==
    CASE w.cur.kind \in {"refresh", "initAuth"} -> Finish(setStoredRefresh(w, Null), e)
      [] w.cur.kind = "tick" ->
             Finish(logoutBegin([w EXCEPT !.cur.caught = e], FALSE), "ok")
      [] OTHER                                  -> apiCallCatch(w, e)

\* refreshToken() of the running chain threw `e`
\* (refresh: to the application; initAuth, line 154; the tick, lines 136-139;
\*  apiCall, line 48 inside the try)
refreshFailed(w, e) ==
    CASE w.cur.kind \in {"refresh", "initAuth"} -> Finish(w, e)
      [] w.cur.kind = "tick" ->
             Finish(logoutBegin([w EXCEPT !.cur.caught = e], FALSE), "ok")
      [] OTHER                                  -> apiCallCatch(w, e)

\* refreshToken, lines 99-105, up to the await of its fetch
refreshTokenCall(w) ==
    LET w1 == [w EXCEPT !.cur.nref = @ + 1, !.quiet = FALSE]
    IN IF getStoredRefresh(w1) = Null
       THEN refreshFailed(w1, "NoRefresh")
       ELSE Suspend([w1 EXCEPT !.cur.sentRef = getStoredRefresh(w1),
                               !.cur.nrefreq = @ + 1,
                               !.sent = [to |-> "/refresh", auth |-> w1.auth.access,
                                         retry |-> FALSE]], "rfetch")

\* refreshToken that updates the Session and does not persist the credential
refreshTokenWriteNoPersist(w, res) ==
    [w EXCEPT !.auth.access = res.accessToken,
              !.auth.refresh = res.refreshToken,
              !.auth.user = res.user,
              !.cur.renewed = TRUE,
              !.cur.body = res,
              !.ev = "renewal"]

\* refreshToken that persists the credential it sent
refreshTokenWriteKeepsSent(w, res) ==
    setStoredRefresh(refreshTokenWriteNoPersist(w, res), w.cur.sentRef)

\* refreshToken that drops an answer to a credential the store no longer holds
refreshTokenWriteDropsStale(w, res) ==
    IF getStoredRefresh(w) = w.cur.sentRef
    THEN setStoredRefresh(refreshTokenWriteNoPersist(w, res), res.refreshToken)
    ELSE [w EXCEPT !.cur.renewed = TRUE, !.cur.body = res]

\* refreshToken, lines 107-111, with the body `res` of the answer
refreshTokenWrite(w, res) ==
    LET w1 == [w EXCEPT !.auth.access = res.accessToken,
                        !.auth.refresh = res.refreshToken,
                        !.auth.user = res.user,
                        !.cur.renewed = TRUE,
                        !.cur.body = res,
                        !.ev = "renewal"]
    IN setStoredRefresh(w1, res.refreshToken)

\* refreshToken, lines 107-113, and then the code that awaited it
refreshReturned(w, res) ==
    LET w2 == refreshTokenWrite(w, res)
    IN CASE w.cur.kind \in {"refresh", "tick"} -> Finish(w2, "ok")
         [] w.cur.kind = "initAuth"            -> Finish(startAutoRefresh(w2), "ok")
         [] OTHER -> \* apiCall, lines 50-56: the retry
                     Suspend([w2 EXCEPT !.sent = [to |-> Endpoint(w.cur.kind),
                                                  auth |-> w2.auth.access,
                                                  retry |-> TRUE],
                                        !.cur.nmain = @ + 1,
                                        !.cur.sentRef = Null,
                                        !.cur.body = NoBody], "retry")

\* login that leaves the access credential out of the Session
loginReturnedNoAccess(w, res) ==
    LET w1 == [w EXCEPT !.auth.refresh = res.refreshToken, !.auth.user = res.user,
                        !.cur.body = res, !.ev = "login"]
    IN Finish(startAutoRefresh(setStoredRefresh(w1, res.refreshToken)), "ok")

\* login that does not start the Renewal Timer
loginReturnedNoTimer(w, res) ==
    LET w1 == [w EXCEPT !.auth = [access |-> res.accessToken,
                                  refresh |-> res.refreshToken,
                                  user |-> res.user],
                        !.cur.body = res,
                        !.ev = "login"]
    IN Finish(setStoredRefresh(w1, res.refreshToken), "ok")

\* login, lines 87-96, with the body `res` apiCall returned
loginReturned(w, res) ==
    LET w1 == [w EXCEPT !.auth = [access |-> res.accessToken,
                                  refresh |-> res.refreshToken,
                                  user |-> res.user],
                        !.cur.body = res,
                        !.ev = "login"]
        w2 == setStoredRefresh(w1, res.refreshToken)
    IN Finish(startAutoRefresh(w2), "ok")

\* apiCall returned the parsed body to the operation that called it
\* (register, line 77, returns it to its caller)
callReturned(w, res) ==
    CASE w.cur.kind = "login"  -> loginReturned(w, res)
      [] w.cur.kind = "logout" -> logoutFinally(w)
      [] OTHER                 -> Finish([w EXCEPT !.cur.body = res], "ok")

\* a chain the application or the timer starts
NewChain(kind) == [Idle EXCEPT !.kind = kind, !.out = "pending",
                               !.root = IF kind = "tick" THEN "tick" ELSE "app"]

\* apiCall, lines 28-44: the request is built and sent
apiCallBegin(w) ==
    Suspend([w EXCEPT !.cur.nmain = @ + 1,
                      !.sent = [to |-> Endpoint(w.cur.kind), auth |-> w.auth.access,
                                retry |-> FALSE]], "fetch1")

\* login, lines 84-85
loginCall(w) == apiCallBegin([w EXCEPT !.quiet = FALSE])

\* initAuth that starts the Renewal Timer before it renews
initAuthCallStartsTimer(w) ==
    IF getStoredRefresh(w) = Null
    THEN Finish(startAutoRefresh(w), "NoAuth")
    ELSE refreshTokenCall(startAutoRefresh(w))

\* initAuth(), lines 150-154
initAuthCall(w) ==
    IF getStoredRefresh(w) = Null THEN Finish(w, "NoAuth") ELSE refreshTokenCall(w)

\* ------------------------------------------------------------- state machine
Init ==
    /\ authState = NoSession
    /\ stored \in {Null, "R1"}
    /\ refreshInterval = NoTimer
    /\ timers = {}
    /\ chains = EmptyBag
    /\ finished = Idle
    /\ ev = "none"
    /\ nav = 0
    /\ sent = NoRequest
    /\ quiet = FALSE

\* login(email, password) is called
Login == Install(loginCall(World(NewChain("login"))))

\* register(...), lines 76-82, is called
Register == Install(apiCallBegin(World(NewChain("register"))))

\* logout() is called by the application
Logout == Install(logoutBegin(World(Idle), TRUE))

\* refreshToken() is called by the application
Refresh == Install(refreshTokenCall(World(NewChain("refresh"))))

\* initAuth() is called
InitAuth == Install(initAuthCall(World(NewChain("initAuth"))))

\* a scheduled interval fires, lines 133-139
Tick ==
    /\ timers # {}
    /\ Install(refreshTokenCall(World(NewChain("tick"))))

\* apiCall, lines 44-48 and 66-73: the first fetch is answered
FirstResponse(r, st, body) ==
    /\ r.pc = "fetch1"
    /\ Install(CASE st = "neterr" -> callFailed(World(r), "Network")
                 [] st = "401"    -> refreshTokenCall(World(r))
                 [] st = "500"    -> callFailed(World(r), "Http")
                 [] st = "ok"     -> callReturned(World(r), body))

\* apiCall whose 401 handling does not leave out the refresh endpoint
RefreshResponseRenews(r, st, body) ==
    /\ r.pc = "rfetch"
    /\ Install(CASE st = "neterr" -> refreshFailed(World(r), "Network")
                 [] st = "401"    -> refreshTokenCall(World(r))
                 [] st = "500"    -> refreshFailed(World(r), "Http")
                 [] st = "ok"     -> refreshReturned(World(r), body))

\* apiCall("/refresh"), lines 44-46 and 66-73: the fetch of refreshToken is answered
RefreshResponse(r, st, body) ==
    /\ r.pc = "rfetch"
    /\ Install(CASE st = "neterr"         -> refreshFailed(World(r), "Network")
                 [] st \in {"401", "500"} -> refreshFailed(World(r), "Http")
                 [] st = "ok"             -> refreshReturned(World(r), body))

\* apiCall that returns the body of the first answer after a good retry
RetryResponseFirstBody(r, st, body) ==
    /\ r.pc = "retry"
    /\ Install(CASE st = "neterr"         -> apiCallCatch(World(r), "Network")
                 [] st \in {"401", "500"} -> apiCallCatch(World(r), "RetryFailed")
                 [] st = "ok"             -> callReturned(World(r), NoBody))

\* apiCall, lines 50-59: the retry is answered
RetryResponse(r, st, body) ==
    /\ r.pc = "retry"
    /\ Install(CASE st = "neterr"         -> apiCallCatch(World(r), "Network")
                 [] st \in {"401", "500"} -> apiCallCatch(World(r), "RetryFailed")
                 [] st = "ok"             -> callReturned(World(r), body))

InFlight == BagToSet(chains)

Next ==
    \/ Login
    \/ Register
    \/ Logout
    \/ Refresh
    \/ InitAuth
    \/ Tick
    \/ \E r \in InFlight, st \in Statuses, body \in Bodies : FirstResponse(r, st, body)
    \/ \E r \in InFlight, st \in Statuses, body \in Bodies : RefreshResponse(r, st, body)
    \/ \E r \in InFlight, st \in Statuses, body \in Bodies : RetryResponse(r, st, body)

Spec == Init /\ [][Next]_vars

\* every request in flight is eventually answered or fails
Settle ==
    \E r \in InFlight, st \in Statuses, body \in Bodies :
        \/ FirstResponse(r, st, body)
        \/ RefreshResponse(r, st, body)
        \/ RetryResponse(r, st, body)

\* One call through apiCall and everything it triggers: the application
\* makes a single call, from a program state in which nothing is in flight
\* (no session yet, or the session of an earlier login with its timer), and
\* no timer tick interferes.
LoggedIn(b) ==
    /\ authState = [access |-> b.accessToken, refresh |-> b.refreshToken, user |-> b.user]
    /\ stored = b.refreshToken
    /\ refreshInterval = 1
    /\ timers = {1}

InitOneCall ==
    /\ \/ authState = NoSession /\ stored \in {Null, "R1", "R2"}
          /\ refreshInterval = NoTimer /\ timers = {}
       \/ \E b \in Bodies : LoggedIn(b)
    /\ chains = EmptyBag
    /\ finished = Idle
    /\ ev = "none"
    /\ nav = 0
    /\ sent = NoRequest
    /\ quiet = FALSE

NotCalledYet == chains = EmptyBag /\ finished = Idle

NextOneCall ==
    \/ NotCalledYet /\ Login
    \/ NotCalledYet /\ Register
    \/ NotCalledYet /\ Logout
    \/ Settle

SpecOneCall == InitOneCall /\ [][NextOneCall]_vars /\ WF_vars(Settle)

\* A logout() racing with what was in flight when it began: login() and
\* initAuth() are called only while no logout() is in progress or has just
\* ended, so that in a state satisfying LogoutBegun no login() or initAuth()
\* has been called since the logout() began.
LogoutBegun == quiet \/ \E r \in InFlight : r.kind = "logout"

NextLogoutRace ==
    \/ ~LogoutBegun /\ Login
    \/ ~LogoutBegun /\ InitAuth
    \/ Logout
    \/ Tick
    \/ Settle

SpecLogoutRace == InitOneCall /\ [][NextLogoutRace]_vars

\* ------------------------------------------------------------- claims
Failed(r) == r.out \notin {"ok", "pending", "none"}

SessionOf(b) == [access |-> b.accessToken, refresh |-> b.refreshToken, user |-> b.user]

TimerActive == refreshInterval # NoTimer /\ refreshInterval \in timers

\* C1 (as claimed): a login() that fails, whatever the status of the answer,
\* the 401 included, has called neither refreshToken() nor logout(), has
\* written nothing to the Session and has made no navigation.
C1_FailedLoginChangesNothing ==
    (finished.kind = "login" /\ Failed(finished)) =>
        /\ finished.nref = 0
        /\ finished.nlo = 0
        /\ ~finished.renewed
        /\ ev = "none"
        /\ nav = 0

\* C2 (as claimed): every call to an endpoint other than /refresh whose first
\* answer is 401 sends its request exactly once more.
C2_Retries401Always ==
    (finished.kind \in ApiKinds /\ finished.nref = 1) => finished.nmain = 2

\* C2 (amended): a call to an endpoint other than /refresh calls refreshToken()
\* at most once and sends its request a second time exactly when that
\* refreshToken() returned, never a third time; the retry leaves in the step
\* in which refreshToken() returns and carries the access credential it has
\* just written; no chain sends more than one request to /refresh or calls
\* refreshToken() again after an answer of /refresh.
C2_RetryOnceAfterRenewal ==
    /\ \A r \in InFlight \cup {finished} :
           /\ r.nref <= 1
           /\ r.nrefreq <= r.nref
           /\ r.kind \in RefreshKinds => r.nmain = 0
           /\ r.kind \in ApiKinds =>
                  /\ r.nmain \in 1..2
                  /\ r.nmain = 2 <=> r.renewed
                  /\ r.renewed => r.nref = 1
    /\ sent.retry =>
           /\ ev = "renewal"
           /\ sent.to # "/refresh"
           /\ \E r \in InFlight : r.pc = "retry" /\ sent.to = Endpoint(r.kind)
           /\ sent.auth # Null
           /\ sent.auth = authState.access
    /\ (ev = "renewal" /\ finished = Idle) => sent.retry

C2_Witness ==
    /\ sent.retry
    /\ sent.to = "/register"
    /\ sent.auth = "A2"
    /\ \E r \in InFlight : r.kind = "register" /\ r.pc = "retry" /\ r.nmain = 2

\* C3 (as claimed): one call through apiCall, with everything it triggers,
\* ends: once requests are in flight, a state with none in flight follows,
\* whatever the server answers.
C3_CallTerminates == (chains # EmptyBag) ~> (chains = EmptyBag)

\* C4 (as claimed): the logout() calls that follow from one failed tick make
\* exactly one navigation: when one of them ends, it is the first to.
C4_TickFailureNavigatesOnce ==
    (finished.kind = "logout" /\ finished.root = "tick") => finished.navs = 1

\* C5: when a logout() ends, its caller gets no error, the Session fields are
\* absent, the Credential Store is empty and the navigation has been made,
\* whatever happened to the remote logout request.
C5_LogoutAlwaysCleans ==
    finished.kind = "logout" =>
        /\ finished.out = "ok"
        /\ authState = NoSession
        /\ stored = Null
        /\ nav = 1

C5_Witness ==
    /\ finished.kind = "logout"
    /\ finished.caught = "Network"
    /\ finished.out = "ok"

\* C6 (as claimed): after a logout() has ended, the access credential is
\* absent as long as no login() or refreshToken() has been called since.
C6_AbsentUntilNextStart == quiet => authState.access = Null

\* C6 (amended): the access credential is present exactly when the last of
\* the successful logins, successful renewals and ended logouts was a login
\* or a renewal, whenever that login or renewal was begun: each step leaves
\* the credential present if it completes a login or renewal, absent if it
\* ends a logout, and as it was otherwise.
C6_AccessFollowsLastEvent ==
    [][ (authState'.access # Null) <=>
            \/ ev' \in {"login", "renewal"}
            \/ ev' = "none" /\ authState.access # Null ]_vars

C6_Witness == quiet /\ ev = "renewal" /\ authState.access # Null

\* C7: each step that completes a login, a renewal or a logout leaves the
\* refresh credential of the Session equal to the Credential Store's, and
\* once equal they stay equal.
C7_RefreshMirrorsStore ==
    [][ (ev' # "none" \/ authState.refresh = stored)
            => authState'.refresh = stored' ]_vars

C7_Witness ==
    /\ ev = "renewal"
    /\ BagCardinality(chains) = 2
    /\ authState.refresh = "R2"
    /\ stored = "R2"

\* C8: a refreshToken() called by the application while the Credential Store
\* is empty fails with the no-credential error in the step of the call, has
\* sent no request and called no logout(), and leaves the Session, the
\* Credential Store, the timer and the chains in flight as they were, with
\* no navigation.
C8_EmptyStoreRefreshIsInert ==
    [][ (stored = Null /\ Refresh) =>
            /\ finished'.kind = "refresh"
            /\ finished'.out = "NoRefresh"
            /\ finished'.nrefreq = 0
            /\ finished'.nlo = 0
            /\ authState' = authState
            /\ stored' = stored
            /\ refreshInterval' = refreshInterval
            /\ timers' = timers
            /\ chains' = chains
            /\ nav' = 0 ]_vars

C8_Witness ==
    /\ finished.kind = "refresh"
    /\ finished.out = "NoRefresh"
    /\ chains # EmptyBag

\* C9: when a login() succeeds the Session is the returned access credential,
\* refresh credential and user, the Credential Store holds the returned
\* refresh credential, isAuthenticated() is true and the timer is active;
\* and in every state the Session is whole: empty, or the three fields of
\* one answer.
C9_LoginInstallsSession ==
    /\ authState = NoSession \/ \E b \in Bodies : authState = SessionOf(b)
    /\ (finished.kind = "login" /\ finished.out = "ok") =>
           /\ finished.body \in Bodies
           /\ authState = SessionOf(finished.body)
           /\ stored = finished.body.refreshToken
           /\ isAuthenticated
           /\ TimerActive

C9_Witness ==
    /\ finished.kind = "login"
    /\ finished.out = "ok"
    /\ authState.access = "A1"
    /\ hasRole({"admin"}) = "true"

\* C10: when initAuth() succeeds, the Credential Store holds the refresh
\* credential of the answer, not the one that was sent, the Session holds
\* the access credential and the user of the answer, and the timer is active.
C10_InitAuthResumes ==
    (finished.kind = "initAuth" /\ finished.out = "ok") =>
        /\ finished.sentRef # Null
        /\ finished.body \in Bodies
        /\ stored = finished.body.refreshToken
        /\ authState = SessionOf(finished.body)
        /\ TimerActive

C10_Witness ==
    /\ finished.kind = "initAuth"
    /\ finished.out = "ok"
    /\ finished.sentRef = "R1"
    /\ stored = "R2"
    /\ authState.access = "A2"

\* C11: when the retry of a login() or register() whose first answer was 401
\* is answered 2xx, the call ends in that step without error, its caller
\* gets the body of the retry's answer, and the call has invoked no logout()
\* and made no navigation.
C11_RetryBodyIsResult ==
    [][ \A r \in InFlight, body \in Bodies :
            (r.kind \in {"login", "register"} /\ RetryResponse(r, "ok", body)) =>
                /\ finished'.kind = r.kind
                /\ finished'.out = "ok"
                /\ finished'.body = body
                /\ finished'.renewed
                /\ finished'.nmain = 2
                /\ finished'.nlo = 0
                /\ nav' = 0
                /\ ev' # "logout" ]_vars

C11_Witness ==
    /\ finished.kind = "register"
    /\ finished.out = "ok"
    /\ finished.renewed
    /\ finished.body.accessToken = "A1"
    /\ authState.access = "A2"

\* C12 (as claimed): for every set of roles hasRole is the boolean true when
\* a profile is loaded and its role is one of them, and the boolean false
\* otherwise, also when no profile is loaded.
C12_HasRoleIsBoolean ==
    \A roles \in SUBSET Roles :
        hasRole(roles) = JsBool(authState.user # NoUser /\ authState.user \in roles)

\* C13 (as claimed): once a logout() has begun, and as long as no login() or
\* initAuth() has been called since, no interval is scheduled, so no tick
\* can fire, whatever was in flight when the logout() began.
C13_NoTimerOnceLogoutBegun == LogoutBegun => timers = {}

\* C14: in every state at most one interval is scheduled, and it is the one
\* whose handle the module keeps: every start has cancelled the interval
\* kept before.
C14_AtMostOneTimer ==
    /\ Cardinality(timers) <= 1
    /\ timers \subseteq {refreshInterval}

C14_Witness ==
    /\ finished.kind \in {"login", "initAuth"}
    /\ finished.out = "ok"
    /\ timers = {refreshInterval}
    /\ \E r \in InFlight : r.kind = "tick"

\* C15 (as claimed): no two requests to /refresh carry the same refresh
\* credential; in particular no two that are in flight together do.
C15_NoCredentialSentTwice ==
    \A r1, r2 \in InFlight :
        (r1.pc = "rfetch" /\ r2.pc = "rfetch" /\ r1.sentRef = r2.sentRef) =>
            r1 = r2 /\ CopiesIn(r1, chains) = 1

\* the program state is left as it was, but for the chain r that ended
Untouched(r) ==
    /\ authState' = authState
    /\ stored' = stored
    /\ refreshInterval' = refreshInterval
    /\ timers' = timers
    /\ chains' = chains (-) One(r)
    /\ ev' = "none"
    /\ nav' = 0
    /\ sent' = NoRequest

\* C16: every refreshToken() in flight has sent one request of its own, and
\* whenever one of them is answered 2xx, whatever other renewals are in
\* flight or were answered before, the Session becomes the three fields of
\* that answer and the Credential Store its refresh credential: the answer
\* processed last wins, and both copies come from it.
C16_LastRenewalWins ==
    [][ \A r \in InFlight, body \in Bodies :
            RefreshResponse(r, "ok", body) =>
                /\ r.nrefreq = 1
                /\ r.sentRef # Null
                /\ ev' = "renewal"
                /\ authState' = SessionOf(body)
                /\ stored' = body.refreshToken ]_vars

C16_Witness ==
    /\ ev = "renewal"
    /\ finished.kind = "tick"
    /\ finished.out = "ok"
    /\ authState = SessionOf(finished.body)
    /\ stored = finished.body.refreshToken
    /\ \E r \in InFlight : r.kind \in ApiKinds /\ r.pc = "rfetch"

\* C17: when the /refresh request of a refreshToken() called by the
\* application is answered non-2xx (401 included) or fails on the network,
\* the call ends with that error for its caller, without logout(), request
\* or navigation, and Session, Credential Store and timer are as they were.
C17_DirectRefreshFailureIsInert ==
    [][ \A r \in InFlight, st \in Statuses \ {"ok"}, body \in Bodies :
            (r.kind = "refresh" /\ RefreshResponse(r, st, body)) =>
                /\ finished'.kind = "refresh"
                /\ finished'.out \in {"Http", "Network"}
                /\ finished'.nlo = 0
                /\ Untouched(r) ]_vars

C17_Witness ==
    /\ finished.kind = "refresh"
    /\ finished.out = "Http"
    /\ finished.nrefreq = 1
    /\ stored = "R1"
    /\ authState.access = "A1"
    /\ TimerActive

\* C18: an initAuth() called with an empty Credential Store fails in the step
\* of the call without sending a request, and an initAuth() whose /refresh
\* request is answered non-2xx or fails on the network ends with that error;
\* in both cases no timer is started, no logout() or navigation is made and
\* Session and Credential Store are as they were.
C18_FailedInitAuthIsInert ==
    [][ /\ (stored = Null /\ InitAuth) =>
               /\ finished'.kind = "initAuth"
               /\ finished'.out = "NoAuth"
               /\ finished'.nrefreq = 0
               /\ finished'.nlo = 0
               /\ authState' = authState
               /\ stored' = stored
               /\ refreshInterval' = refreshInterval
               /\ timers' = timers
               /\ chains' = chains
               /\ nav' = 0
               /\ sent' = NoRequest
        /\ \A r \in InFlight, st \in Statuses \ {"ok"}, body \in Bodies :
               (r.kind = "initAuth" /\ RefreshResponse(r, st, body)) =>
                   /\ finished'.kind = "initAuth"
                   /\ finished'.out \in {"Http", "Network"}
                   /\ finished'.nlo = 0
                   /\ Untouched(r) ]_vars

C18_Witness ==
    /\ finished.kind = "initAuth"
    /\ finished.out = "Network"
    /\ finished.nrefreq = 1
    /\ stored = "R1"
    /\ timers = {}

\* C19: a login() or register() whose first answer was 401 and whose
\* refreshToken() or retry then failed ends with an error for its caller,
\* has called logout() once, which has stopped the timer and is in flight;
\* and from there a state follows in which the timer is stopped, the Session
\* is empty and the Credential Store is empty.
FailedAfter401 ==
    /\ finished.kind \in {"login", "register"}
    /\ finished.nref = 1
    /\ finished.out # "ok"

C19_FailedRetryLogsOut ==
    /\ [](FailedAfter401 =>
              /\ Failed(finished)
              /\ finished.nlo = 1
              /\ timers = {}
              /\ refreshInterval = NoTimer
              /\ \E r \in InFlight : r.kind = "logout")
    /\ FailedAfter401 ~> (timers = {} /\ authState = NoSession /\ stored = Null)

C19_Witness ==
    /\ finished.kind = "register"
    /\ finished.out = "RetryFailed"
    /\ finished.nlo = 1
    /\ authState.access # Null
    /\ \E r \in InFlight : r.kind = "logout"

\* C20 (as claimed): when nothing is in flight and an interval is scheduled,
\* the Credential Store holds a refresh credential.
C20_TimerImpliesStored == (chains = EmptyBag /\ timers # {}) => stored # Null

TypeOK ==
    /\ authState \in [access : {Null, "A1", "A2"}, refresh : {Null, "R1", "R2"},
                      user : Roles \cup {NoUser}]
    /\ stored \in {Null, "R1", "R2"}
    /\ refreshInterval \in {NoTimer} \cup timers
    /\ nav \in 0..1
    /\ sent.auth \in {Null, "A1", "A2"}
    /\ BagCardinality(chains) <= MaxChains

====
